---------------------------- MODULE Spec2Model ----------------------------
(***************************************************************************)
(* A model of the tadepool-utils library (src/src/utils.ts): toTitleCase,  *)
(* camelize, isValid, groupBy, normalize, areEqual and sanitize over       *)
(* JSON-like values.                                                       *)
(*                                                                         *)
(* A JavaScript value is a record tagged by "kind".  A string is a         *)
(* sequence of characters, each character a one-token TLA+ string; the     *)
(* token "sz" stands for U+00DF (sharp s), whose upper-case form is the    *)
(* two characters "SS".  An object is the sequence of its own enumerable   *)
(* properties <<key, value>> in Object.keys order; its prototype is        *)
(* Object.prototype.  A function is known by its reference only.           *)
(***************************************************************************)
EXTENDS Integers, Sequences, FiniteSets, TLC

VARIABLES op, args, result, called

vars == <<op, args, result, called>>

(***************************************************************************)
(* Bounds of the model.                                                    *)
(***************************************************************************)
MaxLen == 2      \* elements of an array
MaxKeys == 2     \* own properties of an object
MaxStrLen == 3   \* characters of a string passed to toTitleCase

(***************************************************************************)
(* Values.                                                                 *)
(***************************************************************************)
Null == [kind |-> "null"]
Undefined == [kind |-> "undefined"]
Str(s) == [kind |-> "string", chars |-> s]
Num(n) == [kind |-> "number", isNaN |-> FALSE, num |-> n]
NaN == [kind |-> "number", isNaN |-> TRUE, num |-> 0]
BigInt(n) == [kind |-> "bigint", big |-> n]
Bool(b) == [kind |-> "boolean", bool |-> b]
Fn(r) == [kind |-> "function", ref |-> r]
Arr(items) == [kind |-> "array", items |-> items]
Obj(entries) == [kind |-> "object", entries |-> entries]

\* a call that ended by throwing an error, in place of its return value
Thrown(error) == [kind |-> "throw", error |-> error]

\* typeof value
typeof(value) ==
  IF value.kind \in {"null", "array", "object"} THEN "object" ELSE value.kind

\* Array.isArray(value)
isArray(value) == value.kind = "array"

\* value1 === value2 for two values that are not both objects
StrictEquals(value1, value2) ==
  /\ value1.kind = value2.kind
  /\ CASE value1.kind = "number" ->
            ~value1.isNaN /\ ~value2.isNaN /\ value1.num = value2.num
       [] OTHER -> value1 = value2

\* Boolean(value): the truthiness of a value
ToBoolean(value) ==
  CASE value.kind \in {"null", "undefined"} -> FALSE
    [] value.kind = "string" -> value.chars # <<>>
    [] value.kind = "number" -> ~value.isNaN /\ value.num # 0
    [] value.kind = "bigint" -> value.big # 0
    [] value.kind = "boolean" -> value.bool
    [] OTHER -> TRUE

(***************************************************************************)
(* Strings.                                                                *)
(***************************************************************************)
WhiteSpace == {" ", "\t"}

RECURSIVE trimStart(_)
trimStart(s) ==
  IF s # <<>> /\ Head(s) \in WhiteSpace THEN trimStart(Tail(s)) ELSE s

RECURSIVE trimEnd(_)
trimEnd(s) ==
  IF s # <<>> /\ s[Len(s)] \in WhiteSpace
  THEN trimEnd(SubSeq(s, 1, Len(s) - 1))
  ELSE s

\* a trim that removes one white-space character at most from each end
trimOnce(s) ==
  LET t == IF s # <<>> /\ Head(s) \in WhiteSpace THEN Tail(s) ELSE s
  IN  IF t # <<>> /\ t[Len(t)] \in WhiteSpace THEN SubSeq(t, 1, Len(t) - 1) ELSE t

\* String.prototype.trim
trim(s) == trimEnd(trimStart(s))

\* the lower-case form of one character
LowerOf(c) ==
  CASE c = "A" -> <<"a">>
    [] c = "B" -> <<"b">>
    [] c = "C" -> <<"c">>
    [] c = "S" -> <<"s">>
    [] OTHER -> <<c>>

\* the upper-case form of one character; U+00DF has a two-character one
UpperOf(c) ==
  CASE c = "a" -> <<"A">>
    [] c = "b" -> <<"B">>
    [] c = "c" -> <<"C">>
    [] c = "s" -> <<"S">>
    [] c = "sz" -> <<"S", "S">>
    [] OTHER -> <<c>>

RECURSIVE toLocaleLowerCase(_)
toLocaleLowerCase(s) ==
  IF s = <<>> THEN <<>> ELSE LowerOf(Head(s)) \o toLocaleLowerCase(Tail(s))

RECURSIVE toLocaleUpperCase(_)
toLocaleUpperCase(s) ==
  IF s = <<>> THEN <<>> ELSE UpperOf(Head(s)) \o toLocaleUpperCase(Tail(s))

\* String.prototype.substring(from) and substring(0, to)
substring(s, from, to) ==
  SubSeq(s, from + 1, IF to > Len(s) THEN Len(s) ELSE to)

\* whether sep occurs in s at index i (1-based)
StartsAt(s, sep, i) ==
  /\ i + Len(sep) - 1 <= Len(s)
  /\ SubSeq(s, i, i + Len(sep) - 1) = sep

\* String.prototype.split(sep): the pieces of s between the occurrences of sep
RECURSIVE SplitFrom(_, _, _, _)
SplitFrom(s, sep, i, piece) ==
  IF i > Len(s) THEN <<piece>>
  ELSE IF StartsAt(s, sep, i)
       THEN <<piece>> \o SplitFrom(s, sep, i + Len(sep), <<>>)
       ELSE SplitFrom(s, sep, i + 1, Append(piece, s[i]))

split(s, sep) ==
  IF sep = <<>> THEN [i \in 1..Len(s) |-> <<s[i]>>] ELSE SplitFrom(s, sep, 1, <<>>)

\* Array.prototype.join(sep) of a list of strings
RECURSIVE join(_, _)
join(pieces, sep) ==
  IF pieces = <<>> THEN <<>>
  ELSE IF Len(pieces) = 1 THEN pieces[1]
  ELSE pieces[1] \o sep \o join(Tail(pieces), sep)

(***************************************************************************)
(* Objects.                                                                *)
(***************************************************************************)
ProtoKey == <<"_", "_", "p", "r", "o", "t", "o", "_", "_">>
ConstructorKey == <<"c", "o", "n", "s", "t", "r", "u", "c", "t", "o", "r">>

\* Object.prototype, read through an object that inherits from it: it has no
\* enumerable property of its own
ObjectPrototype == Obj(<<>>)

\* Object.keys(obj)
keys(obj) == [i \in 1..Len(obj.entries) |-> obj.entries[i][1]]

KeySet(obj) == {obj.entries[i][1] : i \in 1..Len(obj.entries)}

HasOwn(obj, key) == \E i \in 1..Len(obj.entries) : obj.entries[i][1] = key

OwnValue(obj, key) ==
  LET i == CHOOSE j \in 1..Len(obj.entries) : obj.entries[j][1] = key
  IN  obj.entries[i][2]

\* obj[key] read: an own property, else what Object.prototype gives
GetProp(obj, key) ==
  IF HasOwn(obj, key) THEN OwnValue(obj, key)
  ELSE IF key = ProtoKey THEN ObjectPrototype
  ELSE IF key = ConstructorKey THEN Fn("Object")
  ELSE Undefined

\* obj[key] = value on an object made by {} : an own property is written in
\* place or appended; "__proto__" is not an own property of such an object, so
\* the write goes to the setter inherited from Object.prototype, which adds
\* no own property
SetProp(obj, key, value) ==
  IF HasOwn(obj, key)
  THEN Obj([i \in 1..Len(obj.entries) |->
              IF obj.entries[i][1] = key THEN <<key, value>> ELSE obj.entries[i]])
  ELSE IF key = ProtoKey THEN obj
  ELSE Obj(Append(obj.entries, <<key, value>>))

(***************************************************************************)
(* toTitleCase                                                             *)
(***************************************************************************)
DefaultSplitter == <<" ">>

\* a toTitleCase whose lower-cased remainder starts at the first character
toTitleCaseFromZero(value, splitter) ==
  IF typeof(value) # "string" THEN value
  ELSE LET pieces == split(value.chars, splitter)
       IN  Str(join([i \in 1..Len(pieces) |->
                       toLocaleUpperCase(substring(pieces[i], 0, 1)) \o
                       toLocaleLowerCase(substring(pieces[i], 0, Len(pieces[i])))],
                    <<" ">>))

toTitleCase(value, splitter) ==
  IF typeof(value) # "string" THEN value
  ELSE LET pieces == split(value.chars, splitter)
       IN  Str(join([i \in 1..Len(pieces) |->
                       toLocaleUpperCase(substring(pieces[i], 0, 1)) \o
                       toLocaleLowerCase(substring(pieces[i], 1, Len(pieces[i])))],
                    <<" ">>))

(***************************************************************************)
(* camelize                                                                *)
(***************************************************************************)
\* a key renaming that lower-cases the first letter of the first segment only
transformKeyFirstLetter(key) ==
  LET splittedKey == split(key, <<"_">>)
      rest == Tail(splittedKey)
  IN  toLocaleLowerCase(substring(splittedKey[1], 0, 1)) \o
      substring(splittedKey[1], 1, Len(splittedKey[1])) \o
      join([i \in 1..Len(rest) |-> toTitleCase(Str(rest[i]), DefaultSplitter).chars],
           <<>>)

\* const transformedKey of camelizeObject
transformKey(key) ==
  LET splittedKey == split(key, <<"_">>)
      rest == Tail(splittedKey)
  IN  toLocaleLowerCase(splittedKey[1]) \o
      join([i \in 1..Len(rest) |-> toTitleCase(Str(rest[i]), DefaultSplitter).chars],
           <<>>)

RECURSIVE camelizeObject(_)
RECURSIVE camelizeArray(_)

\* keys.forEach(key => ...) of camelizeObject, from key i on
RECURSIVE camelizeKeys(_, _, _)
camelizeKeys(input, i, res) ==
  IF i > Len(keys(input)) THEN res
  ELSE LET key == keys(input)[i]
           value == GetProp(input, key)
       IN  camelizeKeys(input, i + 1,
                        SetProp(res, transformKey(key), camelizeObject(value)))

camelizeObject(obj) ==
  IF typeof(obj) # "object" \/ obj = Null THEN obj
  ELSE IF isArray(obj) THEN camelizeArray(obj)
  ELSE camelizeKeys(obj, 1, Obj(<<>>))

\* a camelizeArray that leaves the arrays inside an array as they are
camelizeArrayShallow(arr) ==
  IF ~isArray(arr) THEN arr
  ELSE Arr([i \in 1..Len(arr.items) |->
              IF isArray(arr.items[i]) THEN arr.items[i]
              ELSE camelizeObject(arr.items[i])])

camelizeArray(arr) ==
  IF ~isArray(arr) THEN arr
  ELSE Arr([i \in 1..Len(arr.items) |->
              IF isArray(arr.items[i]) THEN camelizeArray(arr.items[i])
              ELSE camelizeObject(arr.items[i])])

camelize(value) ==
  IF typeof(value) # "object" \/ value = Null THEN value
  ELSE IF isArray(value) THEN camelizeArray(value)
  ELSE camelizeObject(value)

(***************************************************************************)
(* isValid                                                                 *)
(***************************************************************************)
RECURSIVE isValid(_)

\* an isValid that takes a number, a large integer or a boolean by its
\* truthiness
isValidTruthy(value) ==
  CASE typeof(value) = "string" -> Len(trim(value.chars)) # 0
    [] typeof(value) = "object" ->
         IF value = Null THEN FALSE
         ELSE IF isArray(value)
              THEN \E i \in 1..Len(value.items) : isValid(value.items[i])
              ELSE \E i \in 1..Len(keys(value)) :
                     isValid(GetProp(value, keys(value)[i]))
    [] typeof(value) \in {"number", "bigint", "boolean"} -> ToBoolean(value)
    [] OTHER -> FALSE

isValid(value) ==
  CASE typeof(value) = "string" -> Len(trim(value.chars)) # 0
    [] typeof(value) = "object" ->
         IF value = Null THEN FALSE
         ELSE IF isArray(value)
              THEN \E i \in 1..Len(value.items) : isValid(value.items[i])
              ELSE \E i \in 1..Len(keys(value)) :
                     isValid(GetProp(value, keys(value)[i]))
    [] typeof(value) = "number" -> TRUE
    [] typeof(value) = "bigint" -> TRUE
    [] typeof(value) = "boolean" -> TRUE
    [] OTHER -> FALSE

(***************************************************************************)
(* sanitize                                                                *)
(***************************************************************************)
RECURSIVE sanitize(_)

\* value.forEach(v => ...) of the array branch, from element i on
RECURSIVE sanitizeItems(_, _, _)
sanitizeItems(items, i, sanitizedArray) ==
  IF i > Len(items) THEN sanitizedArray
  ELSE LET sanitizedV == sanitize(items[i])
       IN  sanitizeItems(items, i + 1,
             IF isValid(sanitizedV) THEN Append(sanitizedArray, sanitizedV)
             ELSE sanitizedArray)

\* keys.forEach(k => ...) of the object branch, from key i on
RECURSIVE sanitizeKeys(_, _, _)
sanitizeKeys(v, i, res) ==
  IF i > Len(keys(v)) THEN res
  ELSE LET k == keys(v)[i]
           _v == sanitize(GetProp(v, k))
       IN  sanitizeKeys(v, i + 1, IF isValid(_v) THEN SetProp(res, k, _v) ELSE res)

sanitize(value) ==
  IF typeof(value) = "string" THEN Str(trim(value.chars))
  ELSE IF typeof(value) = "object"
       THEN IF value = Null THEN value
            ELSE IF isArray(value)
                 THEN Arr(sanitizeItems(value.items, 1, <<>>))
                 ELSE sanitizeKeys(value, 1, Obj(<<>>))
       ELSE value

(***************************************************************************)
(* normalize                                                               *)
(***************************************************************************)
GenereKey == <<"g", "e", "n", "e", "r", "e">>
Hola == <<"h", "o", "l", "a">>

\* keyGenerator(item) for the key generators of the unit tests,
\* (m) => m.genere and (x) => "hola"; reading a property of a value that is
\* not an object gives undefined
Call(keyGenerator, item) ==
  CASE keyGenerator.ref = "genere" ->
         IF item.kind = "object" THEN GetProp(item, GenereKey) ELSE Undefined
    [] keyGenerator.ref = "hola" -> Str(Hola)

\* value.reduce((accumulator, currentItem) => ...) of normalize, from item i
\* on; a key generator returns a string, or undefined
RECURSIVE normalizeReduce(_, _, _, _)
normalizeReduce(items, keyGenerator, i, accumulator) ==
  IF i > Len(items) THEN accumulator
  ELSE LET currentItem == items[i]
           key == Call(keyGenerator, currentItem)
       IN  normalizeReduce(items, keyGenerator, i + 1,
             IF ~isValid(key) THEN accumulator
             ELSE IF ~ToBoolean(GetProp(accumulator, key.chars))
                  THEN SetProp(accumulator, key.chars, currentItem)
                  ELSE accumulator)

normalize(value, keyGenerator) ==
  IF ~isArray(value) \/ typeof(keyGenerator) # "function" THEN Obj(<<>>)
  ELSE normalizeReduce(value.items, keyGenerator, 1, Obj(<<>>))

\* the items normalize calls keyGenerator with: none when the arguments are
\* refused, else every item, once each, in order
normalizeCalled(value, keyGenerator) ==
  IF ~isArray(value) \/ typeof(keyGenerator) # "function" THEN <<>>
  ELSE value.items

(***************************************************************************)
(* groupBy                                                                 *)
(***************************************************************************)
\* value.reduce((accumulator, currentItem) => ...) of groupBy, from item i on.
\* run.accumulator is the accumulator, run.called the items keyGenerator has
\* been called with, run.thrown whether the callback threw.  accumulator[key]
\* is read through Object.prototype: for a key such as "constructor" or
\* "__proto__" it is an inherited value that is truthy, is not null or
\* undefined and has no push method, so accumulator[key]?.push(currentItem)
\* calls undefined and throws a TypeError.
RECURSIVE groupByReduce(_, _, _, _)
groupByReduce(items, keyGenerator, i, run) ==
  IF i > Len(items) \/ run.thrown THEN run
  ELSE LET currentItem == items[i]
           key == Call(keyGenerator, currentItem)
           accumulator == run.accumulator
           calledNow == Append(run.called, currentItem)
           created == IF ~ToBoolean(GetProp(accumulator, key.chars))
                      THEN SetProp(accumulator, key.chars, Arr(<<>>))
                      ELSE accumulator
           list == GetProp(created, key.chars)
       IN  groupByReduce(items, keyGenerator, i + 1,
             IF ~isValid(key)
             THEN [run EXCEPT !.called = calledNow]
             ELSE IF list.kind \in {"null", "undefined"}
             THEN [run EXCEPT !.called = calledNow, !.accumulator = created]
             ELSE IF list.kind # "array"
             THEN [run EXCEPT !.called = calledNow, !.accumulator = created,
                              !.thrown = TRUE]
             ELSE [run EXCEPT !.called = calledNow,
                              !.accumulator =
                                 SetProp(created, key.chars,
                                         Arr(Append(list.items, currentItem)))])

\* a groupBy that refuses its arguments only when both are malformed: with
\* one of them malformed, value.reduce or keyGenerator(currentItem) is the
\* call of something that is no function, which throws a TypeError
groupByRunBothRefused(value, keyGenerator) ==
  IF ~isArray(value) /\ typeof(keyGenerator) # "function"
  THEN [accumulator |-> Obj(<<>>), called |-> <<>>, thrown |-> FALSE]
  ELSE IF ~isArray(value)
  THEN [accumulator |-> Obj(<<>>), called |-> <<>>, thrown |-> TRUE]
  ELSE IF typeof(keyGenerator) # "function"
  THEN [accumulator |-> Obj(<<>>), called |-> <<>>,
        thrown |-> Len(value.items) > 0]
  ELSE groupByReduce(value.items, keyGenerator, 1,
                     [accumulator |-> Obj(<<>>), called |-> <<>>, thrown |-> FALSE])

\* the whole call: the check of the arguments, then the reduce
groupByRun(value, keyGenerator) ==
  IF ~isArray(value) \/ typeof(keyGenerator) # "function"
  THEN [accumulator |-> Obj(<<>>), called |-> <<>>, thrown |-> FALSE]
  ELSE groupByReduce(value.items, keyGenerator, 1,
                     [accumulator |-> Obj(<<>>), called |-> <<>>, thrown |-> FALSE])

\* what groupBy returns, or throws
groupBy(value, keyGenerator) ==
  LET run == groupByRun(value, keyGenerator)
  IN  IF run.thrown THEN Thrown("TypeError") ELSE run.accumulator

\* the items groupBy calls keyGenerator with
groupByCalled(value, keyGenerator) == groupByRun(value, keyGenerator).called

(***************************************************************************)
(* areEqual                                                                *)
(***************************************************************************)
\* a string comparison that lower-cases its first operand only
compareStringsOneSided(value1, value2, trimWhiteSpace, ignoreCase) ==
  LET v1 == IF trimWhiteSpace THEN trim(value1.chars) ELSE value1.chars
      v2 == IF trimWhiteSpace THEN trim(value2.chars) ELSE value2.chars
  IN  IF ignoreCase THEN toLocaleLowerCase(v1) = v2 ELSE v1 = v2

\* case "string" of areEqual
compareStrings(value1, value2, trimWhiteSpace, ignoreCase) ==
  LET v1 == IF trimWhiteSpace THEN trim(value1.chars) ELSE value1.chars
      v2 == IF trimWhiteSpace THEN trim(value2.chars) ELSE value2.chars
  IN  IF ignoreCase
      THEN toLocaleLowerCase(v1) = toLocaleLowerCase(v2)
      ELSE v1 = v2

RECURSIVE areEqual(_, _, _, _)
areEqual(value1, value2, trimWhiteSpace, ignoreCase) ==
  IF typeof(value1) # typeof(value2) THEN FALSE
  ELSE CASE typeof(value1) = "string" ->
              compareStrings(value1, value2, trimWhiteSpace, ignoreCase)
         [] typeof(value1) = "object" ->
              IF value1 = Null \/ value2 = Null THEN value1 = value2
              ELSE IF isArray(value1) /\ isArray(value2)
              THEN /\ Len(value1.items) = Len(value2.items)
                   /\ \A index \in 1..Len(value2.items) :
                        areEqual(value2.items[index], value1.items[index],
                                 trimWhiteSpace, ignoreCase)
              ELSE IF \/ isArray(value1) /\ ~isArray(value2)
                      \/ isArray(value2) /\ ~isArray(value1)
              THEN FALSE
              ELSE /\ Len(keys(value1)) = Len(keys(value2))
                   /\ \A i \in 1..Len(keys(value1)) :
                        areEqual(GetProp(value1, keys(value1)[i]),
                                 GetProp(value2, keys(value1)[i]),
                                 trimWhiteSpace, ignoreCase)
         [] OTHER -> StrictEquals(value1, value2)

(***************************************************************************)
(* Inputs.                                                                 *)
(***************************************************************************)
SeqsUpTo(S, n) == UNION {[1..k -> S] : k \in 0..n}

\* property lists with pairwise different keys
EntriesUpTo(K, S, n) ==
  {e \in SeqsUpTo(K \X S, n) :
     \A i, j \in 1..Len(e) : e[i][1] = e[j][1] => i = j}

ArraysOf(S, n) == {Arr(s) : s \in SeqsUpTo(S, n)}
ObjectsOf(K, S, n) == {Obj(e) : e \in EntriesUpTo(K, S, n)}

Scalars ==
  {Null, Undefined, NaN, Num(0), Num(1), BigInt(0), Bool(FALSE), Bool(TRUE),
   Fn("f"), Fn("g"),
   Str(<<>>), Str(<<" ">>), Str(<<"\t">>), Str(<<"a">>), Str(<<"A">>),
   Str(<<" ", "a", " ">>), Str(<<"\t", " ", "a">>)}

\* the values isValid and sanitize are called with
TreeLeaves == {Null, Undefined, Num(0), Fn("f"), Str(<<" ">>), Str(<<" ", "a", " ">>)}
TreeKeys == {<<"a">>, <<"b">>, ProtoKey}
Trees1 == ArraysOf(TreeLeaves, MaxLen) \cup ObjectsOf(TreeKeys, TreeLeaves, MaxKeys)
TreeInner ==
  {Str(<<" ">>), Num(0)} \cup
  {t \in Trees1 : IF isArray(t) THEN Len(t.items) <= 1 ELSE Len(t.entries) <= 1}
Trees2 == ArraysOf(TreeInner, MaxLen) \cup ObjectsOf({<<"a">>, ProtoKey}, TreeInner, MaxKeys)
Trees3 == {Arr(<<t>>) : t \in {u \in Trees2 : IF isArray(u) THEN Len(u.items) = 1 ELSE Len(u.entries) = 1}}
Trees == Scalars \cup Trees1 \cup Trees2 \cup Trees3

\* the pairs of values areEqual is called with: scalars with scalars, arrays
\* with arrays, records with records, nested containers with nested
\* containers, and a sample of pairs of different kinds
EqElems == {Undefined, NaN, Str(<<"a">>), Str(<<"A", " ">>)}
EqValues == {Undefined, Num(1), Str(<<"a">>)}
EqKeys == {<<"a">>, <<"b">>, <<"c">>}
EqArrays == ArraysOf(EqElems, MaxLen)
EqObjects == ObjectsOf(EqKeys, EqValues, MaxKeys)
EqInner ==
  {Arr(<<>>), Arr(<<NaN>>), Arr(<<Str(<<"a">>)>>), Arr(<<Str(<<"A">>)>>),
   Obj(<<>>), Obj(<< <<<<"a">>, Str(<<"a">>)>> >>),
   Obj(<< <<<<"a">>, Str(<<"A">>)>> >>), Obj(<< <<<<"b">>, Undefined>> >>)}
EqNested ==
  {Arr(<<t>>) : t \in EqInner} \cup
  {Obj(<< <<k, t>> >>) : k \in {<<"a">>, ProtoKey}, t \in EqInner}
EqMixed == Scalars \cup {Arr(<<>>), Obj(<<>>), Arr(<<Num(1)>>),
                         Obj(<< <<<<"a">>, Num(1)>> >>)}
EqPairs ==
  (EqMixed \X EqMixed) \cup (EqArrays \X EqArrays) \cup
  (EqObjects \X EqObjects) \cup (EqNested \X EqNested)

\* the strings toTitleCase is called with, and its other arguments
TitleChars == {"a", "A", "sz", " ", "_"}
TitleStrings == {Str(c) : c \in SeqsUpTo(TitleChars, MaxStrLen)}
TitleValues == TitleStrings \cup (Scalars \ {Str(<<>>)})
Splitters == {DefaultSplitter, <<"_">>, <<>>}

\* the values camelize is called with
CamelKeys ==
  {<<"a">>, <<"a", "B">>, <<"a", "_", "b">>, <<"A", "_", "B">>,
   <<"a", "_", "_", "b">>, <<"a", "_", "b", " ", "c">>, <<"_", "s", "z">>}
CamelLeaves == {Num(1), Null, Str(<<"a", "_", "B">>)}
Camel1 == ObjectsOf(CamelKeys, CamelLeaves, MaxKeys)
CamelInner ==
  {Num(1), Obj(<< <<<<"a", "_", "b">>, Num(1)>> >>), Obj(<< <<<<"a", "B">>, Null>> >>),
   Arr(<<Obj(<< <<<<"a", "_", "b">>, Num(1)>> >>)>>), Arr(<<Str(<<"a", "_", "B">>)>>)}
Camel2 ==
  ArraysOf(CamelInner, MaxLen) \cup
  ObjectsOf({<<"a", "_", "b">>, <<"A", "_", "B">>}, CamelInner, MaxKeys)
Camels == Scalars \cup Camel1 \cup Camel2

\* the sequences and key generators normalize is called with
Genere(g, n) == Obj(<< <<GenereKey, Str(g)>>, <<<<"n">>, Num(n)>> >>)
IndexItems ==
  {Num(0), Num(1), Bool(FALSE), Str(<<>>), Str(<<"a">>),
   Genere(<<"A">>, 0), Genere(<<"A">>, 1), Genere(<<"B">>, 0), Genere(<<" ">>, 0),
   Genere(ProtoKey, 0), Genere(ConstructorKey, 0)}
IndexValues ==
  ArraysOf(IndexItems, MaxLen) \cup {Null, Undefined, Str(<<"a">>), Obj(<<>>)}
KeyGenerators == {Fn("genere"), Fn("hola")}

(***************************************************************************)
(* The calls.  Every call is independent of every other: the library keeps *)
(* no state, so a behaviour is one call from the idle state.               *)
(***************************************************************************)
Init ==
  /\ op = "idle"
  /\ args = <<>>
  /\ result = Undefined
  /\ called = <<>>

CallIsValid ==
  /\ op = "idle"
  /\ \E value \in Trees :
       /\ op' = "isValid"
       /\ args' = <<value>>
       /\ result' = Bool(isValid(value))
       /\ called' = <<>>

CallSanitize ==
  /\ op = "idle"
  /\ \E value \in Trees :
       /\ op' = "sanitize"
       /\ args' = <<value>>
       /\ result' = sanitize(value)
       /\ called' = <<>>

(***************************************************************************)
(* isValid and sanitize: properties.                                       *)
(***************************************************************************)
\* the values stored in a Sequence or a Record
Children(value) ==
  IF value.kind = "array" THEN value.items
  ELSE IF value.kind = "object"
       THEN [i \in 1..Len(value.entries) |-> value.entries[i][2]]
       ELSE <<>>

\* the reference definition of validity
RECURSIVE ValidRef(_)
ValidRef(value) ==
  CASE value.kind = "string" ->
         \E i \in 1..Len(value.chars) : value.chars[i] \notin WhiteSpace
    [] value.kind \in {"number", "bigint", "boolean"} -> TRUE
    [] value.kind \in {"null", "undefined", "function"} -> FALSE
    [] OTHER ->
         \E i \in 1..Len(Children(value)) : ValidRef(Children(value)[i])

\* C7: isValid returns, for every value, what the recursive reference
\* definition of validity gives: strings by a non-white-space character,
\* numbers, large integers and booleans valid, Null, Missing and functions
\* invalid, a Sequence or a Record valid iff one of its children is.
C7_isValidMatchesReference ==
  op = "isValid" => result = Bool(ValidRef(args[1]))

\* a Record holding an invalid container and a zero is judged valid
C7_Witness ==
  /\ op = "isValid"
  /\ args[1].kind = "object"
  /\ Len(args[1].entries) = 2
  /\ args[1].entries[1][2].kind = "array"
  /\ args[1].entries[2][2] = Num(0)
  /\ result = Bool(TRUE)

\* C3: when the output of sanitize is valid, sanitizing it again returns it
\* unchanged.
C3_sanitizeIdempotent ==
  (op = "sanitize" /\ isValid(result)) => sanitize(result) = result

\* a nested container that sanitize changed into a valid one
C3_Witness ==
  /\ op = "sanitize"
  /\ isValid(result)
  /\ result # args[1]
  /\ result.kind \in {"array", "object"}
  /\ \E i \in 1..Len(Children(result)) :
       Children(result)[i].kind \in {"array", "object"}

ValidEntry(e) == isValid(e[2])

\* what the claim says sanitize returns for a Sequence or a Record: the
\* sanitized children that are valid, in order, under their keys
KeptChildren(value) ==
  IF value.kind = "array"
  THEN Arr(SelectSeq([i \in 1..Len(value.items) |-> sanitize(value.items[i])],
                     isValid))
  ELSE Obj(SelectSeq([i \in 1..Len(value.entries) |->
                        <<value.entries[i][1], sanitize(value.entries[i][2])>>],
                     ValidEntry))

RECURSIVE AllChildrenValid(_)
AllChildrenValid(value) ==
  \A i \in 1..Len(Children(value)) :
    isValid(Children(value)[i]) /\ AllChildrenValid(Children(value)[i])

RECURSIVE AllStringsTrimmed(_)
AllStringsTrimmed(value) ==
  IF value.kind = "string"
  THEN value.chars = <<>> \/
       (Head(value.chars) \notin WhiteSpace /\
        value.chars[Len(value.chars)] \notin WhiteSpace)
  ELSE \A i \in 1..Len(Children(value)) : AllStringsTrimmed(Children(value)[i])

\* C8: sanitize of a Sequence or a Record keeps exactly the children whose
\* sanitized value is valid, in order and under their keys; so every child
\* of the output is valid at every depth and every string leaf is trimmed.
C8_sanitizeKeepsValidChildren ==
  (op = "sanitize" /\ args[1].kind \in {"array", "object"}) =>
    /\ result = KeptChildren(args[1])
    /\ AllChildrenValid(result)
    /\ AllStringsTrimmed(result)

CallAreEqual ==
  /\ op = "idle"
  /\ \E pair \in EqPairs, trimWhiteSpace \in BOOLEAN, ignoreCase \in BOOLEAN :
       /\ op' = "areEqual"
       /\ args' = <<pair[1], pair[2], trimWhiteSpace, ignoreCase>>
       /\ result' = Bool(areEqual(pair[1], pair[2], trimWhiteSpace, ignoreCase))
       /\ called' = <<>>

(***************************************************************************)
(* areEqual: properties.                                                   *)
(***************************************************************************)
\* C1: areEqual(a, b, w, c) and areEqual(b, a, w, c) return the same boolean.
C1_areEqualSymmetric ==
  op = "areEqual" =>
    result = Bool(areEqual(args[2], args[1], args[3], args[4]))

\* C5: two Records judged equal have the same keys, and equal values under
\* each key.
C5_equalRecordsSameKeys ==
  (/\ op = "areEqual"
   /\ args[1].kind = "object"
   /\ args[2].kind = "object"
   /\ result = Bool(TRUE)) =>
    /\ KeySet(args[1]) = KeySet(args[2])
    /\ \A k \in KeySet(args[1]) :
         areEqual(OwnValue(args[1], k), OwnValue(args[2], k), args[3], args[4])

RECURSIVE ContainsNaN(_)
ContainsNaN(value) ==
  \/ value = NaN
  \/ \E i \in 1..Len(Children(value)) : ContainsNaN(Children(value)[i])

\* C4 as claimed: areEqual(t, t, w, c) is true for every value t.
C4_areEqualReflexive ==
  (op = "areEqual" /\ args[1] = args[2]) => result = Bool(TRUE)

\* C4, amended: areEqual(t, t, w, c) is true for every value t that holds no
\* NaN at any depth.
C4_areEqualReflexiveNoNaN ==
  (op = "areEqual" /\ args[1] = args[2] /\ ~ContainsNaN(args[1])) =>
    result = Bool(TRUE)

\* a nested container with an upper-case string compared with itself, case
\* not ignored
C4_Witness ==
  /\ op = "areEqual"
  /\ args[1] = args[2]
  /\ ~ContainsNaN(args[1])
  /\ args[1] = Obj(<< <<<<"a">>, Arr(<<Str(<<"A">>)>>)>> >>)
  /\ args[4] = FALSE
  /\ result = Bool(TRUE)

CallToTitleCase ==
  /\ op = "idle"
  /\ \E value \in TitleValues, splitter \in Splitters :
       /\ op' = "toTitleCase"
       /\ args' = <<value, splitter>>
       /\ result' = toTitleCase(value, splitter)
       /\ called' = <<>>

CallCamelize ==
  /\ op = "idle"
  /\ \E value \in Camels :
       /\ op' = "camelize"
       /\ args' = <<value>>
       /\ result' = camelize(value)
       /\ called' = <<>>

(***************************************************************************)
(* toTitleCase: properties.                                                *)
(***************************************************************************)
\* C6 as claimed: under the default splitter, toTitleCase of the output of
\* toTitleCase is that output, for every string.
C6_toTitleCaseIdempotent ==
  (op = "toTitleCase" /\ args[1].kind = "string" /\ args[2] = DefaultSplitter) =>
    toTitleCase(result, DefaultSplitter) = result

\* every space-separated word of s starts with a character whose upper-case
\* form is one character
SingleUpperFirsts(s) ==
  \A i \in 1..Len(split(s, <<" ">>)) :
    LET word == split(s, <<" ">>)[i]
    IN  word # <<>> => Len(UpperOf(word[1])) = 1

\* C6, amended: under the default splitter, toTitleCase of the output of
\* toTitleCase is that output, for every string whose space-separated words
\* each start with a character that has a one-character upper-case form.
C6_toTitleCaseIdempotentSingleUpper ==
  (/\ op = "toTitleCase"
   /\ args[1].kind = "string"
   /\ args[2] = DefaultSplitter
   /\ SingleUpperFirsts(args[1].chars)) =>
    toTitleCase(result, DefaultSplitter) = result

\* two words, the second in upper case, title-cased
C6_Witness ==
  /\ op = "toTitleCase"
  /\ args[2] = DefaultSplitter
  /\ args[1] = Str(<<"a", " ", "A">>)
  /\ result = Str(<<"A", " ", "A">>)

(***************************************************************************)
(* camelize: properties.                                                   *)
(***************************************************************************)
\* a word with its first character in upper case and the rest in lower case
Capitalized(word) ==
  IF word = <<>> THEN <<>>
  ELSE UpperOf(word[1]) \o toLocaleLowerCase(Tail(word))

RECURSIVE Concat(_)
Concat(pieces) ==
  IF pieces = <<>> THEN <<>> ELSE Head(pieces) \o Concat(Tail(pieces))

\* the new key as the claim has it: the first segment in lower case, then
\* each later segment capitalized
ClaimedKey(key) ==
  LET segments == split(key, <<"_">>)
  IN  toLocaleLowerCase(segments[1]) \o
      Concat([i \in 1..(Len(segments) - 1) |-> Capitalized(segments[i + 1])])

\* the new key: the first segment in lower case, then each later segment with
\* each of its space-separated words capitalized
TitledKey(key) ==
  LET segments == split(key, <<"_">>)
      Titled(segment) ==
        LET words == split(segment, <<" ">>)
        IN  join([j \in 1..Len(words) |-> Capitalized(words[j])], <<" ">>)
  IN  toLocaleLowerCase(segments[1]) \o
      Concat([i \in 1..(Len(segments) - 1) |-> Titled(segments[i + 1])])

\* out is in with every key renamed by ClaimedKey and nothing else changed
RECURSIVE RenamedAsClaimed(_, _)
RenamedAsClaimed(out, in) ==
  CASE in.kind = "array" ->
         /\ out.kind = "array"
         /\ Len(out.items) = Len(in.items)
         /\ \A i \in 1..Len(in.items) : RenamedAsClaimed(out.items[i], in.items[i])
    [] in.kind = "object" ->
         /\ out.kind = "object"
         /\ Len(out.entries) = Len(in.entries)
         /\ \A i \in 1..Len(in.entries) :
              /\ HasOwn(out, ClaimedKey(in.entries[i][1]))
              /\ RenamedAsClaimed(OwnValue(out, ClaimedKey(in.entries[i][1])),
                                  in.entries[i][2])
    [] OTHER -> out = in

\* C9 as claimed: camelize renames every Record key at every depth to the
\* first segment in lower case followed by the later segments capitalized,
\* keeps under the new key the camelized value, keeps the length and order of
\* Sequences, and changes nothing else.
C9_camelizeRenamesKeys ==
  op = "camelize" => RenamedAsClaimed(result, args[1])

\* the last property of in whose key is renamed to newKey
LastRenamedTo(in, newKey) ==
  LET i == CHOOSE j \in 1..Len(in.entries) :
             /\ TitledKey(in.entries[j][1]) = newKey
             /\ \A l \in (j + 1)..Len(in.entries) :
                  TitledKey(in.entries[l][1]) # newKey
  IN  in.entries[i][2]

\* out is in with every key renamed by TitledKey, the last of the keys
\* renamed alike giving the value
RECURSIVE Renamed(_, _)
Renamed(out, in) ==
  CASE in.kind = "array" ->
         /\ out.kind = "array"
         /\ Len(out.items) = Len(in.items)
         /\ \A i \in 1..Len(in.items) : Renamed(out.items[i], in.items[i])
    [] in.kind = "object" ->
         /\ out.kind = "object"
         /\ KeySet(out) = {TitledKey(in.entries[i][1]) : i \in 1..Len(in.entries)}
         /\ Len(out.entries) = Cardinality(KeySet(out))
         /\ \A k \in KeySet(out) : Renamed(OwnValue(out, k), LastRenamedTo(in, k))
    [] OTHER -> out = in

\* C9, amended: camelize renames every Record key at every depth to the first
\* segment in lower case followed by the later segments, each with every one
\* of its space-separated words capitalized; when several keys of a Record
\* are renamed alike the Record keeps one property for them, holding the
\* camelized value of the last; otherwise the value under the new key is the
\* camelized value, Sequences keep length and order, and nothing else changes.
C9_camelizeRenamesKeysLastWins ==
  op = "camelize" => Renamed(result, args[1])

\* an array in an array holding a Record whose key is renamed
C9_Witness ==
  /\ op = "camelize"
  /\ args[1] = Arr(<<Arr(<<Obj(<< <<<<"a", "_", "b">>, Num(1)>> >>)>>)>>)
  /\ result = Arr(<<Arr(<<Obj(<< <<<<"a", "B">>, Num(1)>> >>)>>)>>)

NoUnderscore(key) == \A i \in 1..Len(key) : key[i] # "_"

\* C10 as claimed: a key without "_" is renamed to itself with its first
\* letter in lower case and every other character as it was.
C10_plainKeyFirstLetterOnly ==
  (op = "camelize" /\ args[1].kind = "object") =>
    \A k \in KeySet(args[1]) :
      NoUnderscore(k) =>
        HasOwn(result, toLocaleLowerCase(SubSeq(k, 1, 1)) \o SubSeq(k, 2, Len(k)))

\* C10, amended: a key without "_" is renamed to itself in lower case, every
\* character of it; a key in camel form loses its inner capital letters.
C10_plainKeyLowerCased ==
  (op = "camelize" /\ args[1].kind = "object") =>
    \A k \in KeySet(args[1]) :
      NoUnderscore(k) => HasOwn(result, toLocaleLowerCase(k))

\* a key in camel form, renamed
C10_Witness ==
  /\ op = "camelize"
  /\ args[1] = Obj(<< <<<<"a", "B">>, Num(1)>> >>)
  /\ result = Obj(<< <<<<"a", "b">>, Num(1)>> >>)

CallNormalize ==
  /\ op = "idle"
  /\ \E value \in IndexValues, keyGenerator \in KeyGenerators \cup {Null, Undefined} :
       /\ op' = "normalize"
       /\ args' = <<value, keyGenerator>>
       /\ result' = normalize(value, keyGenerator)
       /\ called' = normalizeCalled(value, keyGenerator)

CallGroupBy ==
  /\ op = "idle"
  /\ \E value \in IndexValues, keyGenerator \in KeyGenerators \cup {Null, Undefined} :
       /\ op' = "groupBy"
       /\ args' = <<value, keyGenerator>>
       /\ result' = groupBy(value, keyGenerator)
       /\ called' = groupByCalled(value, keyGenerator)

(***************************************************************************)
(* normalize: properties.                                                  *)
(***************************************************************************)
\* the first element of items whose key is k
FirstWithKey(items, keyGenerator, k) ==
  LET HasKey(j) == Call(keyGenerator, items[j]) = Str(k)
      i == CHOOSE j \in 1..Len(items) : HasKey(j) /\ \A l \in 1..(j - 1) : ~HasKey(l)
  IN  items[i]

\* C2: under every key of the result of normalize is the first element of the
\* sequence with that key, be that element falsy or not.
C2_normalizeFirstWins ==
  (op = "normalize" /\ args[1].kind = "array" /\ args[2].kind = "function") =>
    \A k \in KeySet(result) :
      /\ \E j \in 1..Len(args[1].items) : Call(args[2], args[1].items[j]) = Str(k)
      /\ OwnValue(result, k) = FirstWithKey(args[1].items, args[2], k)

(***************************************************************************)
(* groupBy: properties.                                                    *)
(***************************************************************************)
\* the valid keys of the elements of items
ValidKeys(items, keyGenerator) ==
  {Call(keyGenerator, items[j]).chars :
     j \in {l \in 1..Len(items) : isValid(Call(keyGenerator, items[l]))}}

\* the elements of items whose key is k, in their order
WithKey(items, keyGenerator, k) ==
  LET HasKey(e) == Call(keyGenerator, e) = Str(k)
  IN  SelectSeq(items, HasKey)

\* C11: groupBy skips the elements whose key is not valid and no other; the
\* result has a key exactly for the valid keys that occur, and the list under
\* a key holds the elements with that key, each once, in sequence order.
C11_groupByPartitions ==
  (op = "groupBy" /\ args[1].kind = "array" /\ args[2].kind = "function") =>
    /\ result.kind = "object"
    /\ KeySet(result) = ValidKeys(args[1].items, args[2])
    /\ \A k \in KeySet(result) :
         OwnValue(result, k) = Arr(WithKey(args[1].items, args[2], k))

(***************************************************************************)
(* groupBy and normalize: malformed arguments.                             *)
(***************************************************************************)
\* C12: when the first argument is not a sequence or the second is not a
\* function, groupBy and normalize return an empty mapping, throw nothing and
\* do not call the key function.
C12_malformedArgumentsTolerated ==
  (/\ op \in {"groupBy", "normalize"}
   /\ (args[1].kind # "array" \/ args[2].kind # "function")) =>
    /\ result = Obj(<<>>)
    /\ called = <<>>

\* groupBy of a sequence of two elements with null for the key function
C12_Witness ==
  /\ op = "groupBy"
  /\ args[1].kind = "array"
  /\ Len(args[1].items) = 2
  /\ args[2] = Null
  /\ result = Obj(<<>>)
  /\ called = <<>>

\* C13: sanitize preserves validity: the output of sanitize is valid exactly
\* when its input is.
C13_sanitizePreservesValidity ==
  op = "sanitize" => isValid(result) = isValid(args[1])

Next ==
  \/ CallToTitleCase
  \/ CallCamelize
  \/ CallIsValid
  \/ CallGroupBy
  \/ CallNormalize
  \/ CallAreEqual
  \/ CallSanitize

Spec == Init /\ [][Next]_vars

=============================================================================
